---- MODULE Spec2Model ----
(***************************************************************************)
(* Model of library_functions.py: the back-test of a monthly savings plan  *)
(* against a market-timing and a hybrid strategy.                          *)
(*                                                                         *)
(* A data frame is a record of columns; a column is a function from the    *)
(* row index 0..n-1 (the frame after reset_index) to a value, and a row    *)
(* where the column holds pandas' NaN is a row outside the function's      *)
(* domain.  Percentages are integers counting 1/Grain, amounts of money    *)
(* are integers counting 1/Scale of a currency unit, so that every product *)
(* "amount * percentage" of a run is exact; the rounding of the source's   *)
(* float64 arithmetic is not modelled.                                     *)
(***************************************************************************)
EXTENDS Integers, Sequences, FiniteSets, TLC

VARIABLES pc, args, df, local, ret, err

vars == <<pc, args, df, local, ret, err>>

\* no exception raised
NoError == [type |-> "none", arg |-> "none"]

----------------------------------------------------------------------------
(* Bounds of the model *)

HorizonLen == 4

Grain == 2

Scale == Grain ^ HorizonLen

Idx == 0 .. (HorizonLen - 1)

\* compute_moving_max: the rows of the price series and the highs they take
SeriesLen == 4

MaxHigh == 3

\* get_horizon_start_end: the largest offset and horizon length, in years
MaxOffset == 1

MaxLength == 3

----------------------------------------------------------------------------
(* Helpers: what pandas and numpy compute *)

Min(a, b) == IF a <= b THEN a ELSE b

SetMax(S) == CHOOSE x \in S : \A y \in S : y <= x

SetMin(S) == CHOOSE x \in S : \A y \in S : x <= y

RECURSIVE GCD(_, _)
GCD(a, b) == IF b = 0 THEN a ELSE GCD(b, a % b)

\* a / b as a reduced fraction <<numerator, denominator>> (b > 0, a >= 0)
Div(a, b) == LET g == GCD(a, b) IN <<a \div g, b \div g>>

\* amount * percentage
MulPct(x, p) == (x * p) \div Grain

\* d with column name set to col (df[name] = col)
SetCol(d, name, col) == (name :> col) @@ d

\* the rows of frame d
Rows(d) == DOMAIN d.Date

\* the sum of col over the rows of S
RECURSIVE SumOver(_, _)
SumOver(col, S) ==
    IF S = {} THEN 0 ELSE col[SetMin(S)] + SumOver(col, S \ {SetMin(S)})

\* the values of a sequence
Range(q) == {q[k] : k \in DOMAIN q}

\* Series.cumsum(): NaN rows are skipped and stay NaN
CumSum(col) == [t \in DOMAIN col |-> SumOver(col, {s \in DOMAIN col : s <= t})]

\* Series.fillna(method='ffill') over the rows: a NaN row takes the last value
\* before it, and stays NaN when there is none
FFill(col, rows) ==
    [t \in {r \in rows : \E s \in DOMAIN col : s <= r} |->
        col[SetMax({s \in DOMAIN col : s <= t})]]

\* Series.fillna(v) over the rows
FillNa(col, rows, v) == [t \in rows |-> IF t \in DOMAIN col THEN col[t] ELSE v]

\* df.groupby(['year', 'month']).Date.first(): the first Date of every group
GroupFirstDates(d) ==
    {d.Date[t] : t \in {s \in Rows(d) :
        \A r \in Rows(d) : (d.year[r] = d.year[s] /\ d.month[r] = d.month[s]) => s <= r}}

----------------------------------------------------------------------------
(* The inputs of a planner run *)

Modes == {"monthly_invest_strategy", "markettiming_strategy", "hybrid_strategy"}

PyInt(n) == [v |-> n, type |-> "int"]

PyFloat(n) == [v |-> n, type |-> "float"]

StartYears == {2000}

StartMonths == {12}

OpenBases == {1, 100}

DropVals == {0, 1}

SavingsVals == {100}

\* year and month of the rows: a trading day is in the month of the day before
\* it or in the next one; steps[t] = 1 where row t opens a new month
Calendar(y0, m0, steps) ==
    LET ord[t \in Idx] == IF t = 0 THEN m0 - 1 ELSE ord[t - 1] + steps[t]
    IN  [year  |-> [t \in Idx |-> y0 + (ord[t] \div 12)],
         month |-> [t \in Idx |-> (ord[t] % 12) + 1]]

\* the horizon frame as create_investment_plan hands it to assign_available_capital
HorizonFrames ==
    {[Date         |-> [t \in Idx |-> t + 1],
      year         |-> Calendar(y0, m0, steps).year,
      month        |-> Calendar(y0, m0, steps).month,
      Open         |-> [t \in Idx |-> ob + t],
      percent_drop |-> pd] :
        y0 \in StartYears, m0 \in StartMonths, ob \in OpenBases,
        steps \in [Idx \ {0} -> {0, 1}], pd \in [Idx -> DropVals]}

ValidArgs ==
    [mode                : Modes,
     monthly_savings     : SavingsVals,
     perc_monthly_invest : {0, 1, Grain},
     perc_drop_threshold : {0, 1},
     waiting_days        : {PyInt(1), PyInt(2)},
     drop_multiplier     : {PyInt(1), PyInt(Grain + 1)}]

AllArgs ==
    [mode                : Modes \cup {"other"},
     monthly_savings     : SavingsVals,
     perc_monthly_invest : {-1, 0, 1, Grain, Grain + 1},
     perc_drop_threshold : {-1, 0, 1, Grain, Grain + 1},
     waiting_days        : {PyInt(0), PyInt(1), PyInt(2), PyFloat(2)},
     drop_multiplier     : {PyInt(0), PyInt(1), PyInt(Grain + 1), PyFloat(2)}]

----------------------------------------------------------------------------
(* assign_available_capital *)

\* mutant: the credits are carried forward without being accumulated
AvailableCapital_NoCumSum(d, monthly_savings) ==
    LET money_input == GroupFirstDates(d)
        capital == [t \in {r \in Rows(d) : d.Date[r] \in money_input} |->
                       monthly_savings * Scale]
    IN  FFill(capital, Rows(d))

\* lines 111 to 114
AvailableCapital(d, monthly_savings) ==
    LET money_input == GroupFirstDates(d)
        capital == [t \in {r \in Rows(d) : d.Date[r] \in money_input} |->
                       monthly_savings * Scale]
    IN  FFill(CumSum(capital), Rows(d))

assign_available_capital ==
    /\ pc = "assign_available_capital"
    /\ df' = SetCol(df, "capital", AvailableCapital(df, args.monthly_savings))
    /\ pc' = "determine_buy_and_investment_amount"
    /\ UNCHANGED <<args, local, ret, err>>

----------------------------------------------------------------------------
(* determine_buy_and_investment_amount: the mode check and the override of
   perc_monthly_invest *)

Raise(arg) == [type |-> "AssertionError", arg |-> arg]

\* mutant: the percentage of the call is used whatever the mode
EffectiveMonthlyPercent_AsSupplied(mode, perc_monthly_invest) == perc_monthly_invest

\* lines 230 to 233
EffectiveMonthlyPercent(mode, perc_monthly_invest) ==
    IF mode = "monthly_invest_strategy" THEN Grain
    ELSE IF mode = "markettiming_strategy" THEN 0
    ELSE perc_monthly_invest

determine_buy_and_investment_amount ==
    /\ pc = "determine_buy_and_investment_amount"
    /\ IF args.mode \notin Modes
       THEN /\ err' = Raise("mode")
            /\ pc' = "raised"
            /\ UNCHANGED local
       ELSE /\ local' = [perc_monthly_invest |->
                            EffectiveMonthlyPercent(args.mode, args.perc_monthly_invest)]
            /\ pc' = "create_monthly_investment_plan"
            /\ UNCHANGED err
    /\ UNCHANGED <<args, df, ret>>

----------------------------------------------------------------------------
(* create_monthly_investment_plan *)

ValidPercent(p) == p >= 0 /\ p <= Grain

\* df[df.capital.notnull()].capital.iloc[0]
FirstCapital(d) == d.capital[SetMin(DOMAIN d.capital)]

\* mutant: the capital of the last row (iloc[-1]) instead of the first
MonthlyAmount_LastCapital(d, perc_monthly_invest) ==
    MulPct(d.capital[SetMax(DOMAIN d.capital)], perc_monthly_invest)

MonthlyAmount(d, perc_monthly_invest) == MulPct(FirstCapital(d), perc_monthly_invest)

\* capital - investment_amount.cumsum()
CashAfter(capital, investment_amount) ==
    LET spent == CumSum(investment_amount)
    IN  [t \in DOMAIN capital \cap DOMAIN spent |-> capital[t] - spent[t]]

MonthlyPlan(d, perc_monthly_invest) ==
    LET buying_time == GroupFirstDates(d)
        hit(t) == d.Date[t] \in buying_time
        buy == [t \in Rows(d) |-> IF hit(t) THEN perc_monthly_invest > 0 ELSE FALSE]
        investment_percent == [t \in Rows(d) |-> IF hit(t) THEN perc_monthly_invest ELSE 0]
        investment_amount ==
            [t \in Rows(d) |-> IF hit(t) THEN MonthlyAmount(d, perc_monthly_invest) ELSE 0]
    IN  SetCol(SetCol(SetCol(SetCol(d,
            "buy", buy),
            "investment_percent", investment_percent),
            "investment_amount", investment_amount),
            "cash", CashAfter(d.capital, investment_amount))

\* mutant: the drawdown leg runs in every mode
RunsDrawdownLeg_Always(perc_monthly_invest) == TRUE

\* line 235: the drawdown leg runs unless the monthly percentage is 1.0
RunsDrawdownLeg(perc_monthly_invest) == perc_monthly_invest # Grain

create_monthly_investment_plan ==
    /\ pc = "create_monthly_investment_plan"
    /\ IF ~ValidPercent(local.perc_monthly_invest)
       THEN /\ err' = Raise("perc_monthly_invest")
            /\ pc' = "raised"
            /\ UNCHANGED df
       ELSE /\ df' = MonthlyPlan(df, local.perc_monthly_invest)
            /\ pc' = IF RunsDrawdownLeg(local.perc_monthly_invest)
                     THEN "create_drop_threshold_investment_plan"
                     ELSE "finalize"
            /\ UNCHANGED err
    /\ UNCHANGED <<args, local, ret>>

----------------------------------------------------------------------------
(* create_drop_threshold_investment_plan *)

ValidThreshold(perc_drop_threshold) == perc_drop_threshold >= 0 /\ perc_drop_threshold <= Grain

\* mutant: the type of the value is not looked at
PositiveInt_AnyType(x) == x.v >= 1

\* x >= 1 and type(x) == int
PositiveInt(x) == x.v >= 1 /\ x.type = "int"

\* the first parameter whose assertion fails, "none" when all hold
DropValidation(a) ==
    IF ~ValidThreshold(a.perc_drop_threshold) THEN "perc_drop_threshold"
    ELSE IF ~PositiveInt(a.waiting_days) THEN "waiting_days"
    ELSE IF ~PositiveInt(a.drop_multiplier) THEN "drop_multiplier"
    ELSE "none"

\* the elements of a set of row indices in ascending order
RECURSIVE Ascending(_)
Ascending(S) == IF S = {} THEN << >> ELSE <<SetMin(S)>> \o Ascending(S \ {SetMin(S)})

\* df[df.percent_drop >= perc_drop_threshold]: the rows the loop iterates over
Triggers(d, perc_drop_threshold) ==
    Ascending({t \in DOMAIN d.percent_drop : d.percent_drop[t] >= perc_drop_threshold})

LastIdx(d) == SetMax(Rows(d))

\* mutant: the arguments are checked where they are used, after the first
\* trigger has marked its buy
create_drop_threshold_investment_plan_LateCheck ==
    /\ pc = "create_drop_threshold_investment_plan"
    /\ IF DropValidation(args) # "none"
       THEN /\ err' = Raise(DropValidation(args))
            /\ pc' = "raised"
            /\ df' = LET first == SetMin(Range(Triggers(df, args.perc_drop_threshold)))
                     IN  IF Triggers(df, args.perc_drop_threshold) # << >> /\ first # LastIdx(df)
                         THEN [df EXCEPT !.buy[first + 1] = TRUE]
                         ELSE df
            /\ UNCHANGED local
       ELSE /\ local' = [perc_monthly_invest |-> local.perc_monthly_invest,
                            last_buy |-> -args.waiting_days.v,
                            last_idx |-> LastIdx(df),
                            triggers |-> Triggers(df, args.perc_drop_threshold),
                            i        |-> 0]
            /\ pc' = "scan"
            /\ UNCHANGED <<df, err>>
    /\ UNCHANGED <<args, ret>>

create_drop_threshold_investment_plan ==
    /\ pc = "create_drop_threshold_investment_plan"
    /\ IF DropValidation(args) # "none"
       THEN /\ err' = Raise(DropValidation(args))
            /\ pc' = "raised"
            /\ UNCHANGED local
       ELSE /\ local' = [perc_monthly_invest |-> local.perc_monthly_invest,
                            last_buy |-> -args.waiting_days.v,
                            last_idx |-> LastIdx(df),
                            triggers |-> Triggers(df, args.perc_drop_threshold),
                            i        |-> 0]
            /\ pc' = "scan"
            /\ UNCHANGED err
    /\ UNCHANGED <<args, df, ret>>

\* mutant: the window must be exceeded, not just reached
Eligible_Strict(row_idx, last_buy, waiting_days, last_idx) ==
    row_idx - last_buy > waiting_days /\ row_idx # last_idx

\* mutant: the waiting window is forgotten
Eligible_NoWaiting(row_idx, last_buy, waiting_days, last_idx) ==
    row_idx - last_buy >= 1 /\ row_idx # last_idx

\* line 190
Eligible(row_idx, last_buy, waiting_days, last_idx) ==
    row_idx - last_buy >= waiting_days /\ row_idx # last_idx

\* mutant: the monthly buy of the next row is not looked at
HybridSuppressed_Never(mode, d, next_row_idx) == FALSE

\* line 194
HybridSuppressed(mode, d, next_row_idx) ==
    mode = "hybrid_strategy" /\ d.buy[next_row_idx] = TRUE

\* mutant: the percentage is not capped at 1
DropInvestmentPercent_Uncapped(percent_drop, drop_multiplier) ==
    percent_drop * drop_multiplier

\* np.minimum(1, percent_drop * drop_multiplier)
DropInvestmentPercent(percent_drop, drop_multiplier) ==
    Min(Grain, percent_drop * drop_multiplier)

\* mutant: the amount is taken from the cash of the trigger row
ExecuteBuy_TriggerDayCash(d, row_idx, drop_multiplier) ==
    LET next_row_idx == row_idx + 1
        pct == DropInvestmentPercent(d.percent_drop[row_idx], drop_multiplier)
        amount == MulPct(d.cash[row_idx], pct)
    IN  [d EXCEPT !.buy[next_row_idx] = TRUE,
                  !.investment_percent[next_row_idx] = pct,
                  !.investment_amount[next_row_idx] = amount,
                  !.cash = [t \in DOMAIN @ |-> IF t >= next_row_idx THEN @[t] - amount ELSE @[t]]]

\* mutant: the cash of the buy row itself is left as it was
ExecuteBuy_CashFromDayAfter(d, row_idx, drop_multiplier) ==
    LET next_row_idx == row_idx + 1
        pct == DropInvestmentPercent(d.percent_drop[row_idx], drop_multiplier)
        amount == MulPct(d.cash[next_row_idx], pct)
    IN  [d EXCEPT !.buy[next_row_idx] = TRUE,
                  !.investment_percent[next_row_idx] = pct,
                  !.investment_amount[next_row_idx] = amount,
                  !.cash = [t \in DOMAIN @ |-> IF t > next_row_idx THEN @[t] - amount ELSE @[t]]]

\* lines 196 to 200, last_buy apart
ExecuteBuy(d, row_idx, drop_multiplier) ==
    LET next_row_idx == row_idx + 1
        pct == DropInvestmentPercent(d.percent_drop[row_idx], drop_multiplier)
        amount == MulPct(d.cash[next_row_idx], pct)
    IN  [d EXCEPT !.buy[next_row_idx] = TRUE,
                  !.investment_percent[next_row_idx] = pct,
                  !.investment_amount[next_row_idx] = amount,
                  !.cash = [t \in DOMAIN @ |-> IF t >= next_row_idx THEN @[t] - amount ELSE @[t]]]

\* whether the trigger at row_idx buys on the next row
Executes(d, loc, a, row_idx) ==
    /\ Eligible(row_idx, loc.last_buy, a.waiting_days.v, loc.last_idx)
    /\ ~HybridSuppressed(a.mode, d, row_idx + 1)

\* mutant: last_buy moves to every trigger row the loop visits
LastBuyAfter_Always(last_buy, row_idx, executed) == row_idx

\* line 197: last_buy moves to the trigger row when, and only when, the buy is made
LastBuyAfter(last_buy, row_idx, executed) == IF executed THEN row_idx ELSE last_buy

\* the row the loop is at
Current == local.triggers[local.i + 1]

\* mutant: last_buy is moved before the monthly buy of the next row is looked at
scan_trigger_SuppressedAdvances ==
    /\ pc = "scan"
    /\ local.i < Len(local.triggers)
    /\ LET executed == Executes(df, local, args, Current)
           eligible == Eligible(Current, local.last_buy, args.waiting_days.v, local.last_idx)
       IN  /\ df' = IF executed THEN ExecuteBuy(df, Current, args.drop_multiplier.v) ELSE df
           /\ local' = [local EXCEPT !.last_buy = LastBuyAfter(@, Current, eligible),
                                     !.i = @ + 1]
    /\ UNCHANGED <<pc, args, ret, err>>

\* one iteration of the loop of lines 189 to 200
scan_trigger ==
    /\ pc = "scan"
    /\ local.i < Len(local.triggers)
    /\ LET executed == Executes(df, local, args, Current)
       IN  /\ df' = IF executed THEN ExecuteBuy(df, Current, args.drop_multiplier.v) ELSE df
           /\ local' = [local EXCEPT !.last_buy = LastBuyAfter(@, Current, executed),
                                     !.i = @ + 1]
    /\ UNCHANGED <<pc, args, ret, err>>

\* the loop is exhausted: return df
scan_end ==
    /\ pc = "scan"
    /\ local.i = Len(local.triggers)
    /\ pc' = "finalize"
    /\ UNCHANGED <<args, df, local, ret, err>>

----------------------------------------------------------------------------
(* determine_buy_and_investment_amount, lines 241 to 245 *)

\* mutant: the amount is divided by the open of the row before
ShareAmount_PreviousOpen(investment_amount, Open) ==
    [t \in DOMAIN Open |->
        Div(investment_amount[t], Open[IF t - 1 \in DOMAIN Open THEN t - 1 ELSE t])]

\* investment_amount / Open
ShareAmount(investment_amount, Open) ==
    [t \in DOMAIN Open |-> Div(investment_amount[t], Open[t])]

Finalized(d) ==
    LET investment_percent == FillNa(d.investment_percent, Rows(d), 0)
        investment_amount == FillNa(d.investment_amount, Rows(d), 0)
    IN  SetCol(SetCol(SetCol(d,
            "investment_percent", investment_percent),
            "investment_amount", investment_amount),
            "share_amount", ShareAmount(investment_amount, d.Open))

finalize ==
    /\ pc = "finalize"
    /\ df' = Finalized(df)
    /\ ret' = <<Finalized(df)>>
    /\ pc' = "returned"
    /\ UNCHANGED <<args, local, err>>

----------------------------------------------------------------------------
(* The planner as a function of the horizon frame and the arguments of a
   call that passes the assertions *)

\* the loop of lines 189 to 200 from position loc.i on
RECURSIVE RunScan(_, _, _)
RunScan(d, loc, a) ==
    IF loc.i = Len(loc.triggers) THEN d
    ELSE LET row_idx == loc.triggers[loc.i + 1]
             executed == Executes(d, loc, a, row_idx)
         IN  RunScan(IF executed THEN ExecuteBuy(d, row_idx, a.drop_multiplier.v) ELSE d,
                     [loc EXCEPT !.last_buy = LastBuyAfter(@, row_idx, executed),
                                 !.i = @ + 1],
                     a)

\* create_drop_threshold_investment_plan on frame d
DropThresholdPlan(d, a, perc_monthly_invest) ==
    RunScan(d,
            [perc_monthly_invest |-> perc_monthly_invest,
             last_buy |-> -a.waiting_days.v,
             last_idx |-> LastIdx(d),
             triggers |-> Triggers(d, a.perc_drop_threshold),
             i        |-> 0],
            a)

\* lines 283 and 284: assign_available_capital, then
\* determine_buy_and_investment_amount
PlanOf(d, a) ==
    LET perc_monthly_invest == EffectiveMonthlyPercent(a.mode, a.perc_monthly_invest)
        funded == SetCol(d, "capital", AvailableCapital(d, a.monthly_savings))
        monthly == MonthlyPlan(funded, perc_monthly_invest)
    IN  Finalized(IF RunsDrawdownLeg(perc_monthly_invest)
                  THEN DropThresholdPlan(monthly, a, perc_monthly_invest)
                  ELSE monthly)

----------------------------------------------------------------------------
BaseArgs ==
    [mode                |-> "hybrid_strategy",
     monthly_savings     |-> 100,
     perc_monthly_invest |-> 1,
     perc_drop_threshold |-> 1,
     waiting_days        |-> PyInt(2),
     drop_multiplier     |-> PyInt(1)]

(* A planner run: the frame and the arguments are any of the inputs above *)

\* the calls that differ from BaseArgs in at most one argument
NearBaseArgs ==
    {a \in AllArgs : Cardinality({f \in DOMAIN a : a[f] # BaseArgs[f]}) <= 1}

\* the frames of one price history, whatever their calendar
PlainFrames ==
    {d \in HorizonFrames : d.Open[0] = 1 /\ \A t \in Idx : d.percent_drop[t] = 1}

Start(frames, calls) ==
    /\ pc = "assign_available_capital"
    /\ df \in frames
    /\ args \in calls
    /\ local = << >>
    /\ ret = << >>
    /\ err = NoError

\* every frame, under the valid calls and the calls next to BaseArgs
Init == Start(HorizonFrames, ValidArgs \cup NearBaseArgs)

\* every call, valid or not, on the plain frames
InitValidation == Start(PlainFrames, AllArgs)

Next ==
    \/ assign_available_capital
    \/ determine_buy_and_investment_amount
    \/ create_monthly_investment_plan
    \/ create_drop_threshold_investment_plan
    \/ scan_trigger
    \/ scan_end
    \/ finalize

Spec == Init /\ [][Next]_vars

SpecValidation == InitValidation /\ [][Next]_vars

----------------------------------------------------------------------------
(* compute_roi *)

Abs(n) == IF n < 0 THEN -n ELSE n

Sign(n) == IF n > 0 THEN 1 ELSE IF n < 0 THEN -1 ELSE 0

\* the float n / d (d >= 0) as a reduced fraction; a division by zero raises
\* nothing: it gives <<1, 0>> (inf), <<-1, 0>> (-inf) or <<0, 0>> (NaN)
Quotient(n, d) ==
    IF d = 0 THEN <<Sign(n), 0>>
    ELSE LET g == GCD(Abs(n), d) IN <<n \div g, d \div g>>

\* the sum of two finite fractions
FracAdd(a, b) == Quotient(a[1] * b[2] + b[1] * a[2], a[2] * b[2])

\* a finite fraction times an integer k > 0
FracTimes(a, k) ==
    LET g == GCD(k, a[2]) IN Quotient(a[1] * (k \div g), a[2] \div g)

\* the sum of the fractions of col over the rows of S
RECURSIVE FracSumOver(_, _)
FracSumOver(col, S) ==
    IF S = {} THEN <<0, 1>>
    ELSE FracAdd(col[SetMin(S)], FracSumOver(col, S \ {SetMin(S)}))

\* the group keys of groupby('year'), which sorts them
Years(d) == {d.year[t] : t \in Rows(d)}

\* the rows of the years up to y: groupby('year').X.sum().cumsum() adds X over them
RowsThrough(d, y) == {t \in Rows(d) : d.year[t] <= y}

\* the position of year y among the sorted group keys
YearPosition(d, y) == Cardinality({z \in Years(d) : z <= y})

\* mutant: the open of the first row of every year (head(1))
YearCloseOpen_FirstRow(d) ==
    LET tails == Ascending({SetMin({t \in Rows(d) : d.year[t] = y}) : y \in Years(d)})
    IN  [y \in Years(d) |-> d.Open[tails[YearPosition(d, y)]]]

\* groupby('year').Open.tail(1).values: the opens of the last row of every
\* year in the order of the rows, laid against the sorted years by position
YearCloseOpen(d) ==
    LET tails == Ascending({SetMax({t \in Rows(d) : d.year[t] = y}) : y \in Years(d)})
    IN  [y \in Years(d) |-> d.Open[tails[YearPosition(d, y)]]]

\* line 301
PortfolioPerYear(d) ==
    [y \in Years(d) |->
        FracTimes(FracSumOver(d.share_amount, RowsThrough(d, y)), YearCloseOpen(d)[y])]

\* line 302
AmountInvestedPerYear(d) ==
    [y \in Years(d) |-> SumOver(d.investment_amount, RowsThrough(d, y))]

\* line 303, for one year
Win(portfolio, amount_invested) ==
    Quotient(portfolio[1] - amount_invested * portfolio[2], portfolio[2])

\* mutant: a year without investment is given a return of 0
Roi_ZeroWhenNothingInvested(win, amount_invested) ==
    IF amount_invested = 0 THEN <<0, 1>> ELSE Quotient(win[1], win[2] * amount_invested)

\* line 304, for one year
Roi(win, amount_invested) == Quotient(win[1], win[2] * amount_invested)

compute_roi ==
    /\ pc = "returned"
    /\ LET portfolio_per_year == PortfolioPerYear(df)
           amount_invested_per_year == AmountInvestedPerYear(df)
           win_per_year == [y \in Years(df) |->
                               Win(portfolio_per_year[y], amount_invested_per_year[y])]
           roi_per_year == [y \in Years(df) |->
                               Roi(win_per_year[y], amount_invested_per_year[y])]
       IN  ret' = <<portfolio_per_year, amount_invested_per_year, win_per_year, roi_per_year>>
    /\ pc' = "compute_roi_returned"
    /\ UNCHANGED <<args, df, local, err>>

\* the frames of a rising and of a falling price history
RoiFrames ==
    {[d EXCEPT !.Open = [t \in Idx |-> IF rising THEN t + 1 ELSE HorizonLen - t]] :
        d \in {f \in HorizonFrames : f.Open[0] = 1}, rising \in BOOLEAN}

\* a planner run with valid arguments, and compute_roi on the plan it returns
InitRoi == Start(RoiFrames, ValidArgs)

NextRoi == Next \/ compute_roi

SpecRoi == InitRoi /\ [][NextRoi]_vars

----------------------------------------------------------------------------
(* compute_moving_max *)

\* Series.rolling(window_size).max(): NaN where the window is not full
RollingMax(col, window_size) ==
    [t \in {r \in DOMAIN col : \A s \in (r - window_size + 1) .. r : s \in DOMAIN col} |->
        SetMax({col[s] : s \in (t - window_size + 1) .. t})]

\* the elements of a set of row indices in descending order
RECURSIVE Descending(_)
Descending(S) == IF S = {} THEN << >> ELSE <<SetMax(S)>> \o Descending(S \ {SetMax(S)})

\* the rows of d whose moving_max is NaN
NullRows(d) == Rows(d) \ DOMAIN d.moving_max

\* mutant: the highest High of the frame, whatever rows are still NaN
NullHighMax_AllRows(d) == SetMax({d.High[s] : s \in Rows(d)})

\* df[df.moving_max.isnull()].High.max()
NullHighMax(d) == SetMax({d.High[s] : s \in NullRows(d)})

\* line 80, and the rows line 82 is going to visit
rolling_moving_max ==
    /\ pc = "compute_moving_max"
    /\ df' = SetCol(df, "moving_max", RollingMax(df.High, args.window_size))
    /\ local' = [nulls |-> Descending(NullRows(df')), i |-> 0]
    /\ pc' = "fill_moving_max"
    /\ UNCHANGED <<args, ret, err>>

\* one iteration of the loop of lines 82 and 83
fill_moving_max ==
    /\ pc = "fill_moving_max"
    /\ local.i < Len(local.nulls)
    /\ df' = [df EXCEPT !.moving_max = (local.nulls[local.i + 1] :> NullHighMax(df)) @@ @]
    /\ local' = [local EXCEPT !.i = @ + 1]
    /\ UNCHANGED <<pc, args, ret, err>>

\* line 85
return_moving_max ==
    /\ pc = "fill_moving_max"
    /\ local.i = Len(local.nulls)
    /\ ret' = <<df>>
    /\ pc' = "returned"
    /\ UNCHANGED <<args, df, local, err>>

PriceSeries ==
    {[Date |-> [t \in 0 .. (SeriesLen - 1) |-> t + 1], High |-> h] :
        h \in [0 .. (SeriesLen - 1) -> 1 .. MaxHigh]}

InitMovingMax ==
    /\ pc = "compute_moving_max"
    /\ df \in PriceSeries
    /\ args \in [window_size : 1 .. (SeriesLen + 1)]
    /\ local = << >>
    /\ ret = << >>
    /\ err = NoError

NextMovingMax ==
    \/ rolling_moving_max
    \/ fill_moving_max
    \/ return_moving_max

SpecMovingMax == InitMovingMax /\ [][NextMovingMax]_vars

----------------------------------------------------------------------------
(* get_horizon_start_end, and the slice create_investment_plan takes with it *)

Day(y, m, d) == [year |-> y, month |-> m, day |-> d]

IsLeap(y) == (y % 4 = 0 /\ y % 100 # 0) \/ y % 400 = 0

\* calendar.monthrange(year, month)[1]
DaysInMonth(y, m) ==
    IF m = 2 THEN (IF IsLeap(y) THEN 29 ELSE 28)
    ELSE IF m \in {4, 6, 9, 11} THEN 30 ELSE 31

\* date + relativedelta(years=n): the year moves, the day is cut to the month's length
AddYears(date, n) ==
    Day(date.year + n, date.month, Min(date.day, DaysInMonth(date.year + n, date.month)))

\* a number that orders the dates
Ordinal(date) == (date.year * 12 + (date.month - 1)) * 31 + (date.day - 1)

HorizonStart(start_date, year_start) == AddYears(start_date, year_start)

\* mutant: the end is shifted from the start of the history in one go
HorizonEnd_FromSeriesStart(start_date, year_start, horizon_length) ==
    AddYears(start_date, year_start + horizon_length)

HorizonEnd(start_date, year_start, horizon_length) ==
    AddYears(HorizonStart(start_date, year_start), horizon_length)

get_horizon_start_end ==
    /\ pc = "get_horizon_start_end"
    /\ LET horizon_start == HorizonStart(args.start_date, args.year_start)
           horizon_end == HorizonEnd(args.start_date, args.year_start, args.horizon_length)
       IN  /\ local' = [stdout |-> IF args.verbose = 1
                                   THEN <<<<horizon_start, horizon_end>>>> ELSE << >>]
           /\ ret' = <<horizon_start, horizon_end>>
    /\ pc' = "slice_horizon"
    /\ UNCHANGED <<args, df, err>>

\* df.loc[horizon_start:horizon_end].reset_index(): the rows dated within the
\* two ends, both included, numbered from 0
SliceByDate(d, horizon_start, horizon_end) ==
    LET kept == {t \in Rows(d) : /\ Ordinal(horizon_start) <= Ordinal(d.Date[t])
                                 /\ Ordinal(d.Date[t]) <= Ordinal(horizon_end)}
        order == Ascending(kept)
    IN  [Date |-> [k \in 0 .. (Len(order) - 1) |-> d.Date[order[k + 1]]]]

slice_horizon ==
    /\ pc = "slice_horizon"
    /\ df' = SliceByDate(df, ret[1], ret[2])
    /\ pc' = "sliced"
    /\ UNCHANGED <<args, local, ret, err>>

StartDates == {Day(2016, 2, 29), Day(2018, 12, 31), Day(2019, 6, 3)}

\* the trading days of a history from start_date to its end: the start, and the
\* first trading days of the half years after it
History(start_date) ==
    LET days == {start_date} \cup
                {dt \in {Day(y, m, 2) : y \in 2016 .. 2019, m \in {1, 7}} :
                    Ordinal(dt) > Ordinal(start_date)}
        ords == Ascending({Ordinal(dt) : dt \in days})
    IN  [Date |-> [k \in 0 .. (Len(ords) - 1) |->
                     CHOOSE dt \in days : Ordinal(dt) = ords[k + 1]]]

InitHorizon ==
    /\ pc = "get_horizon_start_end"
    /\ args \in [start_date     : StartDates,
                  year_start     : -1 .. MaxOffset,
                  horizon_length : -1 .. MaxLength,
                  verbose        : {0, 1}]
    /\ df = History(args.start_date)
    /\ local = << >>
    /\ ret = << >>
    /\ err = NoError

NextHorizon ==
    \/ get_horizon_start_end
    \/ slice_horizon

SpecHorizon == InitHorizon /\ [][NextHorizon]_vars

----------------------------------------------------------------------------
(* What the properties below speak of *)

\* the monthly leg has run: the plan columns exist
HasPlan == "cash" \in DOMAIN df

\* the drawdown scan is under way or over
Scanned == "last_buy" \in DOMAIN local

\* row t is the first trading day of its calendar month in the horizon
IsMonthFirst(t) ==
    t = 0 \/ df.year[t] # df.year[t - 1] \/ df.month[t] # df.month[t - 1]

\* the monthly leg buys on row t
MonthlyBuyDay(t) == IsMonthFirst(t) /\ local.perc_monthly_invest > 0

\* the rows a drawdown buy was executed on
DrawdownDays == {t \in Rows(df) : df.buy[t] /\ ~MonthlyBuyDay(t)}

\* the money invested on the rows up to t
InvestedUpTo(t) == SumOver(df.investment_amount, {i \in Rows(df) : i <= t})

\* the loop stands at a trigger
AtTrigger == pc = "scan" /\ local.i < Len(local.triggers)

\* the trigger the loop has just dealt with
Previous == local.triggers[local.i]

\* Scale is fine enough: no product of an amount and a percentage of a run
\* leaves a remainder
ArithmeticIsExact ==
    /\ pc = "create_monthly_investment_plan" =>
          (FirstCapital(df) * local.perc_monthly_invest) % Grain = 0
    /\ (AtTrigger /\ Executes(df, local, args, Current)) =>
          (df.cash[Current + 1] *
              DropInvestmentPercent(df.percent_drop[Current], args.drop_multiplier.v)) % Grain = 0

----------------------------------------------------------------------------
(* C1: once the monthly leg has run, and after every drawdown buy, the cash
   of every row is the available capital of the row minus the investment
   amounts of all rows up to it. *)
C1_CashIsCapitalMinusInvested ==
    HasPlan => \A t \in Rows(df) : df.cash[t] = df.capital[t] - InvestedUpTo(t)

C1_Witness ==
    /\ pc = "returned"
    /\ args.mode = "hybrid_strategy"
    /\ local.perc_monthly_invest = 1
    /\ Cardinality({t \in DrawdownDays : df.investment_amount[t] > 0}) >= 2

(* C2: the triggers of any two executed drawdown buys are at least
   waiting_days rows apart; the window is counted from the trigger row (the
   row before the buy), so with waiting_days = 2 a buy two rows after the
   last one is possible and a buy on the next row is not. *)
C2_DrawdownBuysAreSpaced ==
    (HasPlan /\ Scanned) =>
        \A m, n \in DrawdownDays : m < n => (n - 1) - (m - 1) >= args.waiting_days.v

C2_Witness ==
    /\ pc = "returned"
    /\ Scanned
    /\ args.waiting_days.v = 2
    /\ \E m \in DrawdownDays :
          /\ m + 2 \in DrawdownDays
          /\ m \in Range(local.triggers)
          /\ m + 1 \in Range(local.triggers)

(* C3: in hybrid mode no row carries a contribution of both legs: a row the
   monthly leg buys on keeps the monthly percentage and the monthly amount,
   and every other buy row holds one drawdown amount, its percentage of the
   cash the row had before the buy. *)
C3_NoStackingInHybrid ==
    (HasPlan /\ args.mode = "hybrid_strategy") =>
        \A t \in Rows(df) :
            /\ MonthlyBuyDay(t) =>
                  /\ df.investment_percent[t] = args.perc_monthly_invest
                  /\ df.investment_amount[t] * Grain =
                        args.monthly_savings * Scale * args.perc_monthly_invest
            /\ (df.buy[t] /\ ~MonthlyBuyDay(t)) =>
                  df.investment_amount[t] * Grain =
                     (df.cash[t] + df.investment_amount[t]) * df.investment_percent[t]

\* a trigger the waiting window lets through was skipped for the monthly buy
\* of the next row
C3_Witness ==
    /\ pc = "scan"
    /\ local.i >= 1
    /\ args.mode = "hybrid_strategy"
    /\ Previous # local.last_idx
    /\ MonthlyBuyDay(Previous + 1)
    /\ Previous - local.last_buy >= args.waiting_days.v
    /\ DrawdownDays # {}

(* C4: with an effective monthly percentage of 1.0 the drawdown leg never
   runs, and the returned plan buys on the first trading day of every
   calendar month and on no other row. *)
C4_MonthlyBuysOnMonthFirstsOnly ==
    ("perc_monthly_invest" \in DOMAIN local /\ local.perc_monthly_invest = Grain) =>
        /\ pc \notin {"create_drop_threshold_investment_plan", "scan"}
        /\ ~Scanned
        /\ pc = "returned" => \A t \in Rows(df) : df.buy[t] <=> IsMonthFirst(t)

\* a monthly run over rows that trigger, with drawdown arguments that would buy
C4_Witness ==
    /\ pc = "returned"
    /\ args.mode = "monthly_invest_strategy"
    /\ args.perc_drop_threshold = 0
    /\ \E t \in Rows(df) : ~IsMonthFirst(t) /\ ~df.buy[t] /\ df.percent_drop[t - 1] = 1
    /\ \E t \in Rows(df) : t > 0 /\ IsMonthFirst(t) /\ df.buy[t]

(* C5 as stated: a call with any argument outside its domain returns no
   plan, in every mode. *)
InUnitInterval(p) == 0 <= p /\ p <= Grain

IsPositiveInteger(x) == x.type = "int" /\ x.v > 0

SomeArgumentInvalid(a) ==
    \/ a.mode \notin {"monthly_invest_strategy", "markettiming_strategy", "hybrid_strategy"}
    \/ ~InUnitInterval(a.perc_monthly_invest)
    \/ ~InUnitInterval(a.perc_drop_threshold)
    \/ ~IsPositiveInteger(a.waiting_days)
    \/ ~IsPositiveInteger(a.drop_multiplier)

C5_Original == SomeArgumentInvalid(args) => pc # "returned"

\* the drawdown arguments of a are read: market timing, or hybrid below 100 %
DrawdownArgumentsRead(a) ==
    \/ a.mode = "markettiming_strategy"
    \/ a.mode = "hybrid_strategy" /\ a.perc_monthly_invest # Grain

MustRaise(a) ==
    \/ a.mode \notin {"monthly_invest_strategy", "markettiming_strategy", "hybrid_strategy"}
    \/ a.mode = "hybrid_strategy" /\ ~InUnitInterval(a.perc_monthly_invest)
    \/ /\ DrawdownArgumentsRead(a)
       /\ \/ ~InUnitInterval(a.perc_drop_threshold)
          \/ ~IsPositiveInteger(a.waiting_days)
          \/ ~IsPositiveInteger(a.drop_multiplier)

(* C5, amended: the call raises exactly when the mode is unknown, or the mode
   is hybrid and perc_monthly_invest is outside [0,1], or the drawdown leg
   runs (market timing, or hybrid with perc_monthly_invest below 1.0) and
   perc_drop_threshold is outside [0,1] or waiting_days or drop_multiplier is
   not a positive integer; every other call returns a plan. *)
C5_RaisesWhenTheArgumentIsRead ==
    /\ pc = "returned" => ~MustRaise(args) /\ err = NoError
    /\ pc = "raised" => MustRaise(args) /\ err.type = "AssertionError"

C5_Witness ==
    /\ pc = "raised"
    /\ args.mode = "markettiming_strategy"
    /\ ~InUnitInterval(args.perc_monthly_invest)
    /\ InUnitInterval(args.perc_drop_threshold)
    /\ IsPositiveInteger(args.waiting_days)
    /\ args.drop_multiplier.type = "float"
    /\ err.arg = "drop_multiplier"

PlanColumns == {"buy", "investment_percent", "investment_amount", "cash"}

(* C6 as stated: when the call raises, no plan column has been computed. *)
C6_Original == pc = "raised" => PlanColumns \cap DOMAIN df = {}

(* C6, amended: a call that raises returns nothing; the mode and
   perc_monthly_invest are checked before any plan column is computed, while
   perc_drop_threshold, waiting_days and drop_multiplier are checked after
   the monthly leg has computed the plan columns and before the drawdown leg
   changes any of them. *)
C6_NoPlanOnFailure ==
    pc = "raised" =>
        /\ ret = << >>
        /\ err.arg \in {"mode", "perc_monthly_invest"} => PlanColumns \cap DOMAIN df = {}
        /\ err.arg \in {"perc_drop_threshold", "waiting_days", "drop_multiplier"} =>
              /\ PlanColumns \subseteq DOMAIN df
              /\ ~Scanned
              /\ \A t \in Rows(df) :
                    /\ df.buy[t] = MonthlyBuyDay(t)
                    /\ df.investment_percent[t] =
                          (IF IsMonthFirst(t) THEN local.perc_monthly_invest ELSE 0)
                    /\ df.investment_amount[t] * Grain =
                          (IF IsMonthFirst(t)
                           THEN args.monthly_savings * Scale * local.perc_monthly_invest
                           ELSE 0)
                    /\ df.cash[t] = df.capital[t] - InvestedUpTo(t)

C6_Witness ==
    /\ pc = "raised"
    /\ err.arg = "waiting_days"
    /\ args.mode = "hybrid_strategy"
    /\ \E t \in Rows(df) : df.buy[t] /\ df.investment_amount[t] > 0
    /\ \E t \in Rows(df) : ~IsMonthFirst(t) /\ t - 1 \in Range(Triggers(df, args.perc_drop_threshold))

\* the loop stands at a trigger on the last row
AtLastRow == AtTrigger /\ Current = local.last_idx

(* C7: a trigger on the last row of the horizon is passed over: the step of
   the loop that visits it sets no buy, changes no column of the plan, keeps
   last_buy, adds no row and raises nothing. *)
C7_LastRowTriggerIsDropped ==
    [][AtLastRow =>
          /\ df' = df
          /\ local'.last_buy = local.last_buy
          /\ local'.i = local.i + 1
          /\ err' = NoError
          /\ pc' = "scan"]_vars

\* the loop has passed a trigger on the last row that the waiting window
\* would have let through
C7_Witness ==
    /\ pc = "scan"
    /\ local.i = Len(local.triggers)
    /\ local.i >= 2
    /\ Previous = local.last_idx
    /\ Previous - local.last_buy >= args.waiting_days.v
    /\ args.mode = "markettiming_strategy"
    /\ DrawdownDays # {}

(* C10: under monthly_invest_strategy with monthly savings S, every first
   trading day of a month buys for exactly S at the open of the day
   (share_amount = S / Open), every other row has buy = false and invests
   nothing, and the cash of every row is 0. *)
C10_MonthlyPlanInvestsAllSavings ==
    (pc = "returned" /\ args.mode = "monthly_invest_strategy") =>
        \A t \in Rows(df) :
            /\ df.cash[t] = 0
            /\ IF IsMonthFirst(t)
               THEN /\ df.buy[t] = TRUE
                    /\ df.investment_amount[t] = args.monthly_savings * Scale
                    /\ df.share_amount[t][1] * df.Open[t] =
                          args.monthly_savings * Scale * df.share_amount[t][2]
               ELSE /\ df.buy[t] = FALSE
                    /\ df.investment_amount[t] = 0
                    /\ df.share_amount[t][1] = 0

\* the example: opens 100, 101, 102, savings 100, the first row a month start
C10_Witness ==
    /\ pc = "returned"
    /\ args.mode = "monthly_invest_strategy"
    /\ args.monthly_savings = 100
    /\ df.Open[0] = 100 /\ df.Open[1] = 101 /\ df.Open[2] = 102
    /\ ~IsMonthFirst(1) /\ ~IsMonthFirst(2)
    /\ df.buy[0] = TRUE /\ df.buy[1] = FALSE /\ df.buy[2] = FALSE
    /\ df.investment_amount[0] = 100 * Scale
    /\ df.share_amount[0] = <<Scale, 1>>
    /\ df.cash[0] = 0
    /\ \E t \in Rows(df) : t > 0 /\ IsMonthFirst(t)

\* the highest High of rows a to b
HighestHigh(a, b) == SetMax({df.High[s] : s \in a .. b})

\* the rows whose trailing window is not full
Leading == {t \in Rows(df) : t < args.window_size - 1}

(* C8 as stated: the leading rows all hold one value, the highest High of
   the whole leading prefix. *)
C8_Original ==
    pc = "returned" =>
        \A t \in Leading : df.moving_max[t] = HighestHigh(0, SetMax(Leading))

(* C8, amended: a leading row t (t < window_size - 1) holds the highest High
   of rows 0 to t, an expanding maximum, and a row from window_size - 1 on
   holds the highest High of its trailing window_size rows. *)
C8_LeadingRowsHoldExpandingMax ==
    pc = "returned" =>
        \A t \in Rows(df) :
            df.moving_max[t] =
                IF t \in Leading THEN HighestHigh(0, t)
                ELSE HighestHigh(t - args.window_size + 1, t)

\* two leading rows that end with different values, before a full window
C8_Witness ==
    /\ pc = "returned"
    /\ args.window_size = 3
    /\ df.moving_max[0] < df.moving_max[1]
    /\ df.moving_max[2] < df.moving_max[3]

\* the date n years after date: the same day of the same month, 28 February
\* for a 29 February that the year does not have
YearsLater(date, n) ==
    IF date.month = 2 /\ date.day = 29 /\ ~IsLeap(date.year + n)
    THEN [year |-> date.year + n, month |-> 2, day |-> 28]
    ELSE [year |-> date.year + n, month |-> date.month, day |-> date.day]

\* the last date of the history the call is made on
SeriesEnd == History(args.start_date).Date[SetMax(DOMAIN History(args.start_date).Date)]

\* the call has returned with a range the claim rejects
RangeRejectedByClaim ==
    /\ Len(ret) = 2
    /\ \/ args.year_start < 0
       \/ args.horizon_length < 0
       \/ Ordinal(ret[2]) > Ordinal(SeriesEnd)

(* C9 as stated: a negative offset or length, or an end past the series,
   makes the call fail with InvalidRange. *)
C9_Original == RangeRejectedByClaim => err # NoError

(* C9, amended: get_horizon_start_end returns horizon_start = start_date
   shifted by year_start calendar years and horizon_end = horizon_start
   shifted by horizon_length calendar years, and it checks nothing: a negative
   offset or length shifts backwards, an end past the series is returned as
   it is, and no error is raised; the slice then holds the rows of the
   history dated within the two ends. *)
C9_HorizonIsShiftedAndNeverRejected ==
    pc # "get_horizon_start_end" =>
        /\ ret = <<YearsLater(args.start_date, args.year_start),
                   YearsLater(YearsLater(args.start_date, args.year_start),
                              args.horizon_length)>>
        /\ err = NoError
        /\ pc = "sliced" =>
              {df.Date[t] : t \in Rows(df)} =
                 {dt \in Range(History(args.start_date).Date) :
                     /\ Ordinal(ret[1]) <= Ordinal(dt)
                     /\ Ordinal(dt) <= Ordinal(ret[2])}

\* a horizon that starts on a 28 February cut from the 29th, and ends past the
\* series
C9_Witness ==
    /\ pc = "sliced"
    /\ args.start_date = Day(2016, 2, 29)
    /\ ret[1] = Day(2017, 2, 28)
    /\ ret[2] = Day(2020, 2, 28)
    /\ Ordinal(ret[2]) > Ordinal(SeriesEnd)
    /\ Rows(df) # {}

----------------------------------------------------------------------------
\* the first trading days of a month among the rows up to t
CreditDaysUpTo(t) == {s \in Rows(df) : s <= t /\ IsMonthFirst(s)}

(* C11: assign_available_capital credits monthly_savings on the first
   trading day of every calendar month and on no other row: the capital of
   row t is monthly_savings times the number of months whose first trading
   day is at or before t, so it never decreases and is constant between two
   credit days. *)
C11_CapitalIsSavingsTimesMonthsStarted ==
    "capital" \in DOMAIN df =>
        /\ DOMAIN df.capital = Rows(df)
        /\ \A t \in Rows(df) :
              /\ df.capital[t] =
                    args.monthly_savings * Scale * Cardinality(CreditDaysUpTo(t))
              /\ t > 0 => df.capital[t] >= df.capital[t - 1]
              /\ (t > 0 /\ ~IsMonthFirst(t)) => df.capital[t] = df.capital[t - 1]
              /\ (t > 0 /\ IsMonthFirst(t)) =>
                    df.capital[t] = df.capital[t - 1] + args.monthly_savings * Scale

\* two months have started, and a row that starts none follows the second
C11_Witness ==
    /\ pc = "determine_buy_and_investment_amount"
    /\ \E t \in Rows(df) :
          /\ t >= 2
          /\ ~IsMonthFirst(t)
          /\ IsMonthFirst(t - 1)
          /\ df.capital[t] = 2 * args.monthly_savings * Scale
          /\ df.capital[0] = args.monthly_savings * Scale

(* C12: on every row of the returned plan, in each of the three modes,
   share_amount times Open is the investment amount of the row, and
   share_amount is 0 wherever the investment amount is 0. *)
C12_SharesTimesOpenIsAmount ==
    pc = "returned" =>
        \A t \in Rows(ret[1]) :
            /\ ret[1].share_amount[t][2] > 0
            /\ ret[1].share_amount[t][1] * ret[1].Open[t] =
                  ret[1].investment_amount[t] * ret[1].share_amount[t][2]
            /\ ret[1].investment_amount[t] = 0 => ret[1].share_amount[t][1] = 0

\* a drawdown buy at an open that does not divide the amount, next to rows
\* that invest nothing
C12_Witness ==
    /\ pc = "returned"
    /\ args.mode = "markettiming_strategy"
    /\ \E t \in Rows(df) :
          /\ df.investment_amount[t] > 0
          /\ df.Open[t] > 1
          /\ df.share_amount[t][2] > 1
    /\ \E t \in Rows(df) : df.investment_amount[t] = 0 /\ df.share_amount[t] = <<0, 1>>

----------------------------------------------------------------------------
\* compute_roi has returned its four series
Evaluated == pc = "compute_roi_returned"

portfolio_per_year == ret[1]

amount_invested_per_year == ret[2]

win_per_year == ret[3]

roi_per_year == ret[4]

RECURSIVE ProductOver(_, _)
ProductOver(col, S) ==
    IF S = {} THEN 1 ELSE col[SetMin(S)] * ProductOver(col, S \ {SetMin(S)})

\* a common multiple of the opens of the plan
OpenProduct == ProductOver(df.Open, Rows(df))

\* OpenProduct times the shares bought on the rows of the years up to y
SharesThrough(y) ==
    SumOver([t \in Rows(df) |-> df.investment_amount[t] * (OpenProduct \div df.Open[t])],
            {t \in Rows(df) : df.year[t] <= y})

\* the last row of year y
LastRowOf(y) == SetMax({t \in Rows(df) : df.year[t] = y})

\* fraction q, in lowest terms, is n / d
IsRatio(q, n, d) ==
    /\ q[2] > 0
    /\ GCD(Abs(q[1]), q[2]) = 1
    /\ d % q[2] = 0
    /\ q[1] * (d \div q[2]) = n

(* C13: for every year y of the plan compute_roi reports the investment
   amounts of all rows of the years up to y as the amount invested, the
   shares of those rows times the open of the last row of year y as the
   portfolio value, their difference as the win, and, where something was
   invested, the win over the amount invested as the return; a portfolio of
   1200 on 1000 invested is a win of 200 and a return of 1/5. *)
C13_RoiPerYear ==
    /\ Win(<<1200, 1>>, 1000) = <<200, 1>>
    /\ Roi(Win(<<1200, 1>>, 1000), 1000) = <<1, 5>>
    /\ Evaluated =>
          /\ \A k \in 1 .. 4 : DOMAIN ret[k] = {df.year[t] : t \in Rows(df)}
          /\ \A y \in DOMAIN roi_per_year :
                /\ amount_invested_per_year[y] =
                      SumOver(df.investment_amount, {t \in Rows(df) : df.year[t] <= y})
                /\ portfolio_per_year[y][2] > 0
                /\ GCD(portfolio_per_year[y][1], portfolio_per_year[y][2]) = 1
                /\ portfolio_per_year[y][1] * OpenProduct =
                      portfolio_per_year[y][2] * df.Open[LastRowOf(y)] * SharesThrough(y)
                /\ IsRatio(win_per_year[y],
                           portfolio_per_year[y][1] -
                              amount_invested_per_year[y] * portfolio_per_year[y][2],
                           portfolio_per_year[y][2])
                /\ amount_invested_per_year[y] > 0 =>
                      IsRatio(roi_per_year[y], win_per_year[y][1],
                              win_per_year[y][2] * amount_invested_per_year[y])

\* two years with buys in both and a price that moved within the first; the
\* return over the two years is a loss, and not a whole number
C13_Witness ==
    /\ Evaluated
    /\ \E y \in DOMAIN roi_per_year :
          /\ y + 1 \in DOMAIN roi_per_year
          /\ amount_invested_per_year[y] > 0
          /\ amount_invested_per_year[y + 1] > amount_invested_per_year[y]
          /\ roi_per_year[y][1] # 0
          /\ roi_per_year[y + 1][1] < 0
          /\ roi_per_year[y + 1][2] > 1
          /\ df.Open[LastRowOf(y)] # df.Open[SetMin({t \in Rows(df) : df.year[t] = y})]

(* C14: for a year through which nothing has been invested compute_roi
   reports an undefined return (NaN, the quotient 0 / 0), never a finite
   number; for every other year the return is finite. *)
C14_RoiUndefinedWhenNothingInvested ==
    Evaluated =>
        \A y \in DOMAIN roi_per_year :
            /\ amount_invested_per_year[y] = 0 => roi_per_year[y] = <<0, 0>>
            /\ amount_invested_per_year[y] > 0 => roi_per_year[y][2] > 0

\* a market-timing run whose first drawdown buy falls in the second year
C14_Witness ==
    /\ Evaluated
    /\ args.mode = "markettiming_strategy"
    /\ \E y \in DOMAIN roi_per_year :
          /\ y + 1 \in DOMAIN roi_per_year
          /\ amount_invested_per_year[y] = 0
          /\ roi_per_year[y] = <<0, 0>>
          /\ amount_invested_per_year[y + 1] > 0
          /\ roi_per_year[y + 1][2] > 0

----------------------------------------------------------------------------
\* the trigger the loop stands at is to buy: the waiting window has passed,
\* the row is not the last one, and in hybrid mode the next row has no buy yet
TriggerBuys ==
    /\ Current - local.last_buy >= args.waiting_days.v
    /\ Current # SetMax(Rows(df))
    /\ ~(args.mode = "hybrid_strategy" /\ df.buy[Current + 1])

(* C15: when the trigger at row i is executed, the buy lands on row i + 1
   and nowhere else: buy of row i + 1 becomes true, its investment percent
   is min(1, percent_drop(i) * drop_multiplier), its investment amount is
   that percentage of the cash row i + 1 had before the buy, last_buy
   becomes i, the amount is taken off the cash of row i + 1 and of every
   later row, and the cash of the rows up to i and everything else stay as
   they were. *)
C15_ExecutedTriggerBuysOnNextRow ==
    [][(AtTrigger /\ TriggerBuys) =>
          LET i == Current
              n == Current + 1
              pct == IF df.percent_drop[i] * args.drop_multiplier.v < Grain
                     THEN df.percent_drop[i] * args.drop_multiplier.v
                     ELSE Grain
          IN  /\ df'.buy = [df.buy EXCEPT ![n] = TRUE]
              /\ df'.investment_percent = [df.investment_percent EXCEPT ![n] = pct]
              /\ df'.investment_amount[n] * Grain = df.cash[n] * pct
              /\ \A t \in Rows(df) \ {n} : df'.investment_amount[t] = df.investment_amount[t]
              /\ \A t \in Rows(df) :
                    df'.cash[t] = IF t >= n THEN df.cash[t] - df'.investment_amount[n]
                                          ELSE df.cash[t]
              /\ \A c \in DOMAIN df \ {"buy", "investment_percent", "investment_amount", "cash"} :
                    df'[c] = df[c]
              /\ DOMAIN df' = DOMAIN df
              /\ local'.last_buy = i]_vars

\* a buy was just made on a row that had fresh capital the trigger row did
\* not have, with the percentage capped at 1, and rows follow it
C15_Witness ==
    /\ pc = "scan"
    /\ local.i >= 1
    /\ local.last_buy = Previous
    /\ IsMonthFirst(Previous + 1)
    /\ df.percent_drop[Previous] * args.drop_multiplier.v > Grain
    /\ df.investment_percent[Previous + 1] = Grain
    /\ df.investment_amount[Previous + 1] > df.capital[Previous]
    /\ df.cash[Previous + 1] = 0
    /\ Previous + 2 \in Rows(df)
    /\ df.cash[Previous + 2] = 0

(* C16: a trigger that is skipped, because it lies inside the waiting
   window, or on the last row, or because in hybrid mode the next row has a
   monthly buy, changes nothing: buy, investment percent, investment amount
   and cash of every row and last_buy stay as they were, so a trigger
   suppressed in hybrid mode does not move the waiting window. *)
C16_SkippedTriggerChangesNothing ==
    [][(AtTrigger /\ ~TriggerBuys) =>
          /\ df' = df
          /\ local'.last_buy = local.last_buy]_vars

\* in hybrid mode a trigger outside the waiting window was skipped for the
\* monthly buy of the next row, after an earlier drawdown buy, and the next
\* trigger is still judged against that earlier buy
C16_Witness ==
    /\ pc = "scan"
    /\ local.i >= 2
    /\ local.i < Len(local.triggers)
    /\ args.mode = "hybrid_strategy"
    /\ local.last_buy >= 0
    /\ local.last_buy < Previous
    /\ Previous - local.last_buy >= args.waiting_days.v
    /\ Previous # local.last_idx
    /\ MonthlyBuyDay(Previous + 1)
    /\ df.buy[local.last_buy + 1]
    /\ ~MonthlyBuyDay(local.last_buy + 1)

\* the step makes the buy of the row after the trigger
BuyIsMade ==
    /\ Current + 1 \in Rows(df)
    /\ ~df.buy[Current + 1]
    /\ df'.buy[Current + 1]
    /\ local'.last_buy = Current

(* C17: with an effective monthly percentage below 1 the loop visits exactly
   the rows whose percent_drop is at or above the threshold, and the trigger
   at row i buys on row i + 1 if and only if i - last_buy >= waiting_days, i
   is not the last row, and it is not the case that the mode is hybrid and
   row i + 1 has a monthly buy; last_buy starts at -waiting_days, so the
   first trigger, even on row 0, is eligible at once. *)
C17_TriggerBuysIffEligible ==
    [][/\ (pc = "create_drop_threshold_investment_plan" /\ pc' = "scan") =>
             /\ local'.last_buy = -args.waiting_days.v
             /\ local'.i = 0
             /\ Range(local'.triggers) =
                   {t \in Rows(df) : df.percent_drop[t] >= args.perc_drop_threshold}
             /\ \A j, k \in DOMAIN local'.triggers :
                   j < k => local'.triggers[j] < local'.triggers[k]
       /\ AtTrigger => (BuyIsMade <=> TriggerBuys)]_vars

\* the first trigger is on row 0 and has bought on row 1, with waiting_days = 2
C17_Witness ==
    /\ pc = "scan"
    /\ local.i = 1
    /\ Previous = 0
    /\ local.last_buy = 0
    /\ args.waiting_days.v = 2
    /\ df.buy[1]
    /\ df.investment_amount[1] > 0

----------------------------------------------------------------------------
(* C18: in every mode, with valid arguments and monthly savings that are not
   negative, every row of the plan, while it is built and when it is
   returned, has an investment percent between 0 and 1, an investment amount
   that is not negative and cash that is not negative. *)
C18_PercentAmountCashInRange ==
    (HasPlan /\ args.monthly_savings >= 0) =>
        /\ \A t \in Rows(df) :
              /\ 0 <= df.investment_percent[t] /\ df.investment_percent[t] <= Grain
              /\ df.investment_amount[t] >= 0
              /\ df.cash[t] >= 0
        /\ pc = "returned" => ret[1] = df

\* a hybrid plan in which a drawdown buy with the percentage capped at 1
\* emptied the cash of its row, and a later month filled it again
C18_Witness ==
    /\ pc = "returned"
    /\ args.mode = "hybrid_strategy"
    /\ args.perc_monthly_invest = 1
    /\ \E t \in DrawdownDays :
          /\ df.percent_drop[t - 1] * args.drop_multiplier.v > Grain
          /\ df.investment_percent[t] = Grain
          /\ df.investment_amount[t] > 0
          /\ df.cash[t] = 0
          /\ \E u \in Rows(df) : u > t /\ df.cash[u] > 0

----------------------------------------------------------------------------
\* the columns of the horizon frame the planner is handed
InputColumns == {"Date", "year", "month", "Open", "percent_drop"}

\* the horizon frame the run started from
HorizonFrame == [c \in InputColumns |-> df[c]]

\* the monthly percentages a call can name
PercentChoices == {0, 1, Grain}

\* the call of the run, with another mode and monthly percentage
CallAs(mode, perc_monthly_invest) ==
    [args EXCEPT !.mode = mode, !.perc_monthly_invest = perc_monthly_invest]

(* C19: on the same horizon and with the same threshold, waiting days and
   multiplier, a hybrid run with a monthly percentage of 0 returns the plan
   a market-timing run returns, and a hybrid run with a monthly percentage
   of 1.0 returns the plan a monthly run returns: the same buy, investment
   percent, investment amount, cash and share amount on every row, whatever
   monthly percentage the market-timing or monthly call names. *)
C19_HybridMeetsThePureModes ==
    pc = "returned" =>
        /\ ret[1] = PlanOf(HorizonFrame, args)
        /\ (args.mode = "hybrid_strategy" /\ args.perc_monthly_invest = 0) =>
              \A p \in PercentChoices :
                  ret[1] = PlanOf(HorizonFrame, CallAs("markettiming_strategy", p))
        /\ (args.mode = "hybrid_strategy" /\ args.perc_monthly_invest = Grain) =>
              \A p \in PercentChoices :
                  ret[1] = PlanOf(HorizonFrame, CallAs("monthly_invest_strategy", p))

\* a hybrid run with a monthly percentage of 0 has made a drawdown buy on the
\* first trading day of a month
C19_Witness ==
    /\ pc = "returned"
    /\ args.mode = "hybrid_strategy"
    /\ args.perc_monthly_invest = 0
    /\ \E t \in Rows(df) :
          /\ t > 0
          /\ IsMonthFirst(t)
          /\ df.buy[t]
          /\ df.investment_amount[t] > 0
          /\ df.share_amount[t][1] > 0
    /\ \E t \in Rows(df) : ~df.buy[t] /\ t - 1 \in Range(local.triggers)

====
